---- MODULE Spec2Model ----
(***************************************************************************)
(* A model of preprocessing.py: the positive-integer validator, the atom   *)
(* label builder, the per-frame recentering, the XYZ trajectory parser and *)
(* the writer.                                                             *)
(*                                                                         *)
(* Text is modelled by what Python does with it.  A string is a sequence   *)
(* of one-character strings; a line of a file is modelled by the result of *)
(* line.split(), a sequence of tokens.  Numbers are exact rationals <<n,d>>*)
(* in lowest terms with d > 0, so arithmetic is exact; str() of a float    *)
(* with no integral value is written as the fraction "n/d", standing for   *)
(* the shortest decimal that reads back as the same double.                *)
(***************************************************************************)
EXTENDS Integers, Sequences, FiniteSets, TLC

(* ------------------------------ bounds -------------------------------- *)
\* largest atom count (first header line) of a generated file
MaxAtoms == 3
\* largest number of whole frames of a generated file
MaxFrames == 2
\* longest token handed to cast_positive_int on its own
MaxTokLen == 3
\* largest numerator / denominator of a float handed to cast_positive_int
MaxQuot == 4
\* input coordinates of a frame handed to parse_one_frame range over 0..MaxCoord
MaxCoord == 1

(* --------------------------- exact numbers ---------------------------- *)
Abs(n) == IF n < 0 THEN -n ELSE n

\* Op(e), with e evaluated once whatever the number of its uses in Op
Bind(e, Op(_)) == CHOOSE r \in {Op(v) : v \in {e}} : TRUE

\* the arithmetic is written as functions: their arguments are values
GCD[a \in Nat, b \in Nat] == IF b = 0 THEN a ELSE GCD[b, a % b]

\* the rational n/d (d > 0) in lowest terms
Rat[n \in Int, d \in Nat] == LET g == GCD[Abs(n), d] IN <<n \div g, d \div g>>

Rational == Int \X Nat
RAdd[a \in Rational, b \in Rational] == Rat[a[1] * b[2] + b[1] * a[2], a[2] * b[2]]
RSub[a \in Rational, b \in Rational] == Rat[a[1] * b[2] - b[1] * a[2], a[2] * b[2]]
RDivInt[a \in Rational, k \in Nat] == Rat[a[1], a[2] * k]

\* int(x) of a float: truncation toward zero
Trunc(r) == IF r[1] >= 0 THEN r[1] \div r[2] ELSE -((-r[1]) \div r[2])

(* ------------------------------ strings ------------------------------- *)
Digits == <<"0", "1", "2", "3", "4", "5", "6", "7", "8", "9">>
IsDigit(c) == \E k \in 1..10 : Digits[k] = c
DigitVal(c) == (CHOOSE k \in 1..10 : Digits[k] = c) - 1

AllDigits(s) == Len(s) > 0 /\ \A k \in 1..Len(s) : IsDigit(s[k])

RECURSIVE PrefixVal(_, _)
\* the number the first k digits of s spell
PrefixVal(s, k) ==
  IF k = 0 THEN 0 ELSE 10 * PrefixVal(s, k - 1) + DigitVal(s[k])

DigitsVal(s) == PrefixVal(s, Len(s))

RECURSIVE Pow10(_)
Pow10(k) == IF k = 0 THEN 1 ELSE 10 * Pow10(k - 1)

HasSign(s) == Len(s) > 0 /\ s[1] \in {"-", "+"}
Unsigned(s) == IF HasSign(s) THEN Tail(s) ELSE s
SignOf(s) == IF Len(s) > 0 /\ s[1] = "-" THEN -1 ELSE 1

\* position of the first c in s, 0 when there is none
IndexOf(s, c) ==
  IF \E k \in 1..Len(s) : s[k] = c
  THEN CHOOSE k \in 1..Len(s) : s[k] = c /\ \A j \in 1..(k - 1) : s[j] # c
  ELSE 0

\* int(s) accepts an optional sign followed by digits
IsIntLiteral(s) == AllDigits(Unsigned(s))
StrToInt(s) == SignOf(s) * DigitsVal(Unsigned(s))

\* float(s) accepts [sign] digits [. digits], [sign] . digits and, for the
\* exact reading of a written double, [sign] digits / digits
IsFloatLiteral(s) ==
  LET u == Unsigned(s)
      p == IndexOf(u, ".")
      q == IndexOf(u, "/")
  IN  IF q > 0
      THEN /\ AllDigits(SubSeq(u, 1, q - 1))
           /\ AllDigits(SubSeq(u, q + 1, Len(u)))
           /\ DigitsVal(SubSeq(u, q + 1, Len(u))) > 0
      ELSE IF p > 0
      THEN LET ip == SubSeq(u, 1, p - 1)
               fp == SubSeq(u, p + 1, Len(u))
           IN  /\ ip = <<>> \/ AllDigits(ip)
               /\ fp = <<>> \/ AllDigits(fp)
               /\ ip # <<>> \/ fp # <<>>
      ELSE AllDigits(u)

StrToFloat(s) ==
  LET u == Unsigned(s)
      p == IndexOf(u, ".")
      q == IndexOf(u, "/")
  IN  IF q > 0
      THEN Rat[SignOf(s) * DigitsVal(SubSeq(u, 1, q - 1)),
               DigitsVal(SubSeq(u, q + 1, Len(u)))]
      ELSE IF p > 0
      THEN LET ip == SubSeq(u, 1, p - 1)
               fp == SubSeq(u, p + 1, Len(u))
           IN  Rat[SignOf(s) * (DigitsVal(ip) * Pow10(Len(fp)) + DigitsVal(fp)),
                   Pow10(Len(fp))]
      ELSE Rat[SignOf(s) * DigitsVal(u), 1]

RECURSIVE NatToStr(_)
NatToStr(n) ==
  IF n < 10 THEN <<Digits[n + 1]>>
  ELSE NatToStr(n \div 10) \o <<Digits[(n % 10) + 1]>>

\* str(n) of an int
IntToStr(n) == IF n < 0 THEN <<"-">> \o NatToStr(-n) ELSE NatToStr(n)

\* str(x) of a float
FloatToStr(r) ==
  IF r[2] = 1 THEN IntToStr(r[1]) \o <<".", "0">>
  ELSE IntToStr(r[1]) \o <<"/">> \o IntToStr(r[2])

(* ------------------- values handed to cast_positive_int --------------- *)
\* a str argument is a whole line (its tokens); a float argument a rational
PyStr(line) == [type |-> "str", s |-> line, v |-> <<0, 1>>]
PyFloat(r) == [type |-> "float", s |-> <<>>, v |-> r]

\* int(x) raises ValueError: a str that is not one integer literal
IntRaises(x) ==
  x.type = "str" /\ ~(Len(x.s) = 1 /\ IsIntLiteral(x.s[1]))

PyIntOf(x) == IF x.type = "str" THEN StrToInt(x.s[1]) ELSE Trunc(x.v)
PyFloatOf(x) == IF x.type = "str" THEN StrToFloat(x.s[1]) ELSE x.v

Ok(n) == [ok |-> TRUE, val |-> n, err |-> "none"]
Raise(kind) == [ok |-> FALSE, val |-> 0, err |-> kind]

\* the validator without the test of lines 27-28
cast_positive_int_truncating(in_string) ==
  IF IntRaises(in_string) THEN Raise("NotAnInteger")
  ELSE LET out_int == PyIntOf(in_string)
       IN  IF out_int = 0 THEN Raise("ZeroValue")
           ELSE IF out_int < 0 THEN Raise("NegativeValue")
           ELSE Ok(out_int)

cast_positive_int(in_string) ==
  IF IntRaises(in_string) THEN Raise("NotAnInteger")
  ELSE IF <<PyIntOf(in_string), 1>> # PyFloatOf(in_string) THEN Raise("NotIntegral")
  ELSE LET out_int == PyIntOf(in_string)
       IN  IF out_int = 0 THEN Raise("ZeroValue")
           ELSE IF out_int < 0 THEN Raise("NegativeValue")
           ELSE Ok(out_int)

(* ---------------------------- Python lists ---------------------------- *)
\* lines[a:b] with zero-based a, b: a slice never fails, it clamps
Slice(seq, a, b) ==
  LET hi == IF b > Len(seq) THEN Len(seq) ELSE b
  IN  IF a >= hi THEN <<>> ELSE SubSeq(seq, a + 1, hi)

(* --------------------------- parse_atom_labels ------------------------ *)
\* seen_atoms[key] of a defaultdict(lambda: 0): a missing key is inserted as 0
Touch(seen_atoms, key) ==
  IF key \in DOMAIN seen_atoms THEN seen_atoms ELSE seen_atoms @@ (key :> 0)

\* lines 66-69: the loop body; atom is rebound to the tag before the increment
LabelStep(symbol, seen_atoms) ==
  LET seen1 == Touch(seen_atoms, symbol)
      atom == symbol \o IntToStr(seen1[symbol])
      seen2 == Touch(seen1, atom)
  IN  [atom |-> atom, seen_atoms |-> [seen2 EXCEPT ![atom] = @ + 1]]

\* line 68
AxisLabels(atom) ==
  <<atom \o <<"_", "x">>, atom \o <<"_", "y">>, atom \o <<"_", "z">>>>

RECURSIVE LabelLoop(_, _, _)
\* lines 65-69
LabelLoop(lines, seen_atoms, atom_labels) ==
  IF lines = <<>> THEN atom_labels
  ELSE Bind(LabelStep(Head(lines)[1], seen_atoms), LAMBDA st :
         LabelLoop(Tail(lines), st.seen_atoms, atom_labels \o AxisLabels(st.atom)))

NoLabels == [ok |-> FALSE, labels |-> <<>>, err |-> "pending"]

parse_atom_labels(lines, num_atoms) ==
  IF \E k \in 1..Len(lines) : lines[k] = <<>>
  THEN [ok |-> FALSE, labels |-> <<>>, err |-> "IndexError"]
  ELSE LET atom_labels == LabelLoop(lines, << >>, <<>>)
       IN  IF Len(atom_labels) # num_atoms * 3
           THEN [ok |-> FALSE, labels |-> <<>>, err |-> "LabelCountMismatch"]
           ELSE [ok |-> TRUE, labels |-> atom_labels, err |-> "none"]

(* ---------------------------- parse_one_frame ------------------------- *)
\* line.split()[1:] of every line, one after the other
RECURSIVE Elements(_)
Elements(lines) ==
  IF lines = <<>> THEN <<>>
  ELSE (IF Head(lines) = <<>> THEN <<>> ELSE Tail(Head(lines)))
       \o Elements(Tail(lines))

RECURSIVE SumAxis(_, _, _)
\* the sum of column a (1..3) over the first m rows of the flat vector
SumAxis(values, a, m) ==
  IF m = 0 THEN <<0, 1>>
  ELSE RAdd[SumAxis(values, a, m - 1), values[3 * (m - 1) + a]]

\* the mean of no values
NaN == <<0, 0>>

\* a mean taken over every entry instead of over each column
centroid_over_all(values) ==
  LET m == Len(values) \div 3
      total == RAdd[RAdd[SumAxis(values, 1, m), SumAxis(values, 2, m)],
                    SumAxis(values, 3, m)]
  IN  [a \in 1..3 |-> IF m = 0 THEN NaN ELSE RDivInt[total, 3 * m]]

\* rmsd.centroid(X) is X.mean(axis=0)
centroid(values) ==
  LET m == Len(values) \div 3
  IN  [a \in 1..3 |-> IF m = 0 THEN NaN ELSE RDivInt[SumAxis(values, a, m), m]]

NoFrame == [ok |-> FALSE, frame |-> <<>>, err |-> "pending"]

parse_one_frame(lines) ==
  Bind(Elements(lines), LAMBDA elements :
    IF \E k \in 1..Len(elements) : ~IsFloatLiteral(elements[k])
    THEN [ok |-> FALSE, frame |-> <<>>, err |-> "NumericParseError"]
    ELSE IF Len(elements) % 3 # 0
    THEN [ok |-> FALSE, frame |-> <<>>, err |-> "ReshapeError"]
    ELSE Bind([k \in 1..Len(elements) |-> StrToFloat(elements[k])], LAMBDA frame :
         Bind(centroid(frame), LAMBDA c :
           [ok |-> TRUE,
            frame |-> [k \in 1..Len(frame) |-> RSub[frame[k], c[((k - 1) % 3) + 1]]],
            err |-> "none"])))

(* ------------------------------ writeOutXYYZ -------------------------- *)
\* a writer that repeats the y coordinate in the z column
WriteAtomLine_repeat_y(atom_labels, frame, index) ==
  <<atom_labels[index + 1],
    FloatToStr(frame[3 * index + 1]),
    FloatToStr(frame[3 * index + 2]),
    FloatToStr(frame[3 * index + 2])>>

\* line 143: the line written for position index of a frame
WriteAtomLine(atom_labels, frame, index) ==
  <<atom_labels[index + 1],
    FloatToStr(frame[3 * index + 1]),
    FloatToStr(frame[3 * index + 2]),
    FloatToStr(frame[3 * index + 3])>>

MarkerLine == <<<<"S", "h", "i", "f", "t", "e", "d">>, <<"X", "Y", "Z">>>>

WriteFrame(num_atoms, atom_labels, frame) ==
  <<<<IntToStr(num_atoms)>>, MarkerLine>>
  \o [index1 \in 1..(Len(frame) \div 3) |-> WriteAtomLine(atom_labels, frame, index1 - 1)]

RECURSIVE writeOutXYYZ(_, _, _)
writeOutXYYZ(num_atoms, atom_labels, frames) ==
  IF frames = <<>> THEN <<>>
  ELSE WriteFrame(num_atoms, atom_labels, Head(frames))
       \o writeOutXYYZ(num_atoms, atom_labels, Tail(frames))

(* ------------------------------- state -------------------------------- *)
VARIABLES
  filename_xyz,  \* filename.endswith(".xyz")
  lines,         \* infile.readlines() of the file being parsed
  pc,            \* position of the run in XYZFile.__init__ / parse_xyz_file
  pass,          \* 1: the input file is parsed; 2: the written file is parsed
  num_atoms,     \* self.num_atoms
  num_frames,    \* self.num_frames
  atom_labels,   \* self.atom_labels; <<>> stands for None
  frames,        \* the local table of parse_xyz_file; a row <<>> is not yet written
  i,             \* the loop index of parse_xyz_file
  frame_lines,   \* lines[start_index: end_index] of the current frame
  frame,         \* the vector parse_one_frame returned for the current frame
  err,           \* the exception that ended the run
  constructed,   \* __init__ returned: the caller holds the object
  self_frames,   \* self.frames, assigned when parse_xyz_file returns
  written,       \* writeOutXYYZ was called
  outfile,       \* the lines of the file writeOutXYYZ wrote
  first,         \* the object of pass 1, kept while its output is parsed
  arg,           \* the argument of a function called on its own
  res            \* and its result

vars == <<filename_xyz, lines, pc, pass, num_atoms, num_frames, atom_labels,
          frames, i, frame_lines, frame, err, constructed, self_frames,
          written, outfile, first, arg, res>>

xyz_header_lines == 2

NoError == [kind |-> "none", site |-> "none", line |-> -1, expected |-> -1, got |-> -1]
Error(kind, site, line, expected, got) ==
  [kind |-> kind, site |-> site, line |-> line, expected |-> expected, got |-> got]

NoObject == [lines |-> <<>>, num_atoms |-> 0, num_frames |-> 0,
             atom_labels |-> <<>>, frames |-> <<>>]

\* an exception leaves parse_xyz_file and __init__: nothing else is assigned
Fail(e) ==
  /\ pc' = "Failed"
  /\ err' = e
  /\ UNCHANGED <<filename_xyz, lines, pass, num_atoms, num_frames, atom_labels,
                 frames, i, frame_lines, frame, constructed, self_frames,
                 written, outfile, first, arg, res>>

(* --------------------------- parse_xyz_file --------------------------- *)
start_index(k, n) == k * (n + xyz_header_lines) + xyz_header_lines
end_index(k, n) == (k + 1) * (n + xyz_header_lines)
\* the header index taken one line too late
frame_num_atoms_index_late(k, n) == start_index(k, n) - 1
frame_num_atoms_index(k, n) == start_index(k, n) - 2

\* a floor division in place of the true division
FrameCountArg_floor(total, n) == PyFloat(<<total \div (n + xyz_header_lines), 1>>)

\* line 106: the value handed to cast_positive_int, a true division
FrameCountArg(total, n) == PyFloat(Rat[total, n + xyz_header_lines])

\* line 104: the first header line
ReadHeader ==
  /\ pc = "ReadHeader"
  /\ IF Len(lines) = 0 THEN Fail(Error("IndexError", "header", 0, -1, -1))
     ELSE LET r == cast_positive_int(PyStr(lines[1]))
          IN  IF ~r.ok THEN Fail(Error(r.err, "header", 0, -1, -1))
              ELSE /\ num_atoms' = r.val
                   /\ pc' = "FrameCount"
                   /\ UNCHANGED <<filename_xyz, lines, pass, num_frames, atom_labels,
                                  frames, i, frame_lines, frame, err, constructed,
                                  self_frames, written, outfile, first, arg, res>>

\* lines 106-108: the frame count and the empty table
ComputeFrameCount ==
  /\ pc = "FrameCount"
  /\ LET r == cast_positive_int(FrameCountArg(Len(lines), num_atoms))
     IN  IF ~r.ok THEN Fail(Error(r.err, "frame_count", -1, -1, -1))
         ELSE /\ num_frames' = r.val
              /\ frames' = [row \in 1..r.val |-> <<>>]
              /\ pc' = "DeriveLabels"
              /\ UNCHANGED <<filename_xyz, lines, pass, num_atoms, atom_labels,
                             i, frame_lines, frame, err, constructed,
                             self_frames, written, outfile, first, arg, res>>

\* line 109, and the loop head of line 110
DeriveLabels ==
  /\ pc = "DeriveLabels"
  /\ LET r == parse_atom_labels(
                Slice(lines, xyz_header_lines, xyz_header_lines + num_atoms), num_atoms)
     IN  IF ~r.ok THEN Fail(Error(r.err, "labels", -1, 3 * num_atoms, -1))
         ELSE /\ atom_labels' = r.labels
              /\ i' = 0
              /\ pc' = IF 0 < num_frames THEN "ValidateHeader" ELSE "Return"
              /\ UNCHANGED <<filename_xyz, lines, pass, num_atoms, num_frames,
                             frames, frame_lines, frame, err, constructed,
                             self_frames, written, outfile, first, arg, res>>

\* lines 111-119: the frame's own header line
ValidateHeader ==
  /\ pc = "ValidateHeader"
  /\ LET index == frame_num_atoms_index(i, num_atoms)
     IN  IF index >= Len(lines)
         THEN Fail(Error("IndexError", "frame_header", index, -1, -1))
         ELSE LET r == cast_positive_int(PyStr(lines[index + 1]))
              IN  IF ~r.ok THEN Fail(Error(r.err, "frame_header", index, -1, -1))
                  ELSE IF r.val # num_atoms
                  THEN Fail(Error("FrameAtomCountMismatch", "frame_header",
                                  index, num_atoms, r.val))
                  ELSE /\ pc' = "ExtractBody"
                       /\ UNCHANGED <<filename_xyz, lines, pass, num_atoms, num_frames,
                                      atom_labels, frames, i, frame_lines, frame, err,
                                      constructed, self_frames, written, outfile,
                                      first, arg, res>>

\* line 121
ExtractBody ==
  /\ pc = "ExtractBody"
  /\ frame_lines' = Slice(lines, start_index(i, num_atoms), end_index(i, num_atoms))
  /\ pc' = "Recenter"
  /\ UNCHANGED <<filename_xyz, lines, pass, num_atoms, num_frames, atom_labels,
                 frames, i, frame, err, constructed, self_frames, written,
                 outfile, first, arg, res>>

\* line 122
Recenter ==
  /\ pc = "Recenter"
  /\ LET r == parse_one_frame(frame_lines)
     IN  IF ~r.ok
         THEN Fail(Error(r.err, "frame_body", start_index(i, num_atoms), -1, -1))
         ELSE /\ frame' = r.frame
              /\ pc' = "Store"
              /\ UNCHANGED <<filename_xyz, lines, pass, num_atoms, num_frames,
                             atom_labels, frames, i, frame_lines, err, constructed,
                             self_frames, written, outfile, first, arg, res>>

\* every vector stored in the first row
StoreRow_first(k) == 1

\* line 123: the row the vector is stored in
StoreRow(k) == k + 1

\* line 123: frames[i, :] = frame needs a vector of the row's length
Store ==
  /\ pc = "Store"
  /\ IF Len(frame) # num_atoms * 3
     THEN Fail(Error("BroadcastError", "store", -1, num_atoms * 3, Len(frame)))
     ELSE /\ frames' = [frames EXCEPT ![StoreRow(i)] = frame]
          /\ pc' = "CheckExtracted"
          /\ UNCHANGED <<filename_xyz, lines, pass, num_atoms, num_frames,
                         atom_labels, i, frame_lines, frame, err, constructed,
                         self_frames, written, outfile, first, arg, res>>

\* line 124, and the loop head of line 110
CheckExtracted ==
  /\ pc = "CheckExtracted"
  /\ IF Len(frame_lines) # num_atoms
     THEN Fail(Error("TruncatedFrame", "frame_body", -1, num_atoms, Len(frame_lines)))
     ELSE /\ i' = i + 1
          /\ pc' = IF i + 1 < num_frames THEN "ValidateHeader" ELSE "Return"
          /\ UNCHANGED <<filename_xyz, lines, pass, num_atoms, num_frames,
                         atom_labels, frames, frame_lines, frame, err, constructed,
                         self_frames, written, outfile, first, arg, res>>

\* a table that is returned after a failure as well
Return_after_failure ==
  /\ pc \in {"Return", "Failed"}
  /\ self_frames' = frames
  /\ constructed' = TRUE
  /\ pc' = "Done"
  /\ UNCHANGED <<filename_xyz, lines, pass, num_atoms, num_frames, atom_labels,
                 frames, i, frame_lines, frame, err, written, outfile, first,
                 arg, res>>

\* line 126 and line 50: the table is returned and becomes self.frames
Return ==
  /\ pc = "Return"
  /\ self_frames' = frames
  /\ constructed' = TRUE
  /\ pc' = "Done"
  /\ UNCHANGED <<filename_xyz, lines, pass, num_atoms, num_frames, atom_labels,
                 frames, i, frame_lines, frame, err, written, outfile, first,
                 arg, res>>

\* line 151: the driver writes the constructed object out
WriteOut ==
  /\ pc = "Done"
  /\ constructed
  /\ pass = 1
  /\ ~written
  /\ outfile' = writeOutXYYZ(num_atoms, atom_labels, self_frames)
  /\ written' = TRUE
  /\ UNCHANGED <<filename_xyz, lines, pc, pass, num_atoms, num_frames, atom_labels,
                 frames, i, frame_lines, frame, err, constructed, self_frames,
                 first, arg, res>>

\* lines 45-50, 100-103 for the written file: a second XYZFile reads it
Reparse ==
  /\ pc = "Done"
  /\ pass = 1
  /\ written
  /\ first' = [lines |-> lines, num_atoms |-> num_atoms, num_frames |-> num_frames,
               atom_labels |-> atom_labels, frames |-> self_frames]
  /\ lines' = outfile
  /\ pass' = 2
  /\ pc' = "ReadHeader"
  /\ num_atoms' = 0
  /\ num_frames' = 0
  /\ atom_labels' = <<>>
  /\ frames' = <<>>
  /\ i' = 0
  /\ frame_lines' = <<>>
  /\ frame' = <<>>
  /\ constructed' = FALSE
  /\ self_frames' = <<>>
  /\ UNCHANGED <<filename_xyz, err, written, outfile, arg, res>>

(* ------------------------------ input files --------------------------- *)
Symbols == <<<<"C">>, <<"H">>>>

\* the element symbols of the atoms of a file: all C, C then H, C and H in turn
SymbolKinds == {0, 1, 2}
SymbolOf(s, k) ==
  IF s = 0 THEN Symbols[1]
  ELSE IF s = 1 THEN (IF k = 0 THEN Symbols[1] ELSE Symbols[2])
  ELSE Symbols[(k % 2) + 1]

Points == << <<<<"0">>, <<"0">>, <<"0">>>>,
             <<<<"1">>, <<"0">>, <<"0">>>>,
             <<<<"0">>, <<"1">>, <<"0">>>>,
             <<<<"-", "1", ".", "5">>, <<"2">>, <<"0", ".", "5">>>> >>

\* the kinds of frame body: two geometries and one with a malformed number
BodyKinds == {0, 1, 2}

\* the coordinate tokens of atom k (from 0) of a body of kind b
BodyPoint(b, k) ==
  IF b = 2 /\ k = 0 THEN <<<<"1">>, <<"x">>, <<"0">>>>
  ELSE Points[((k + 3 * b) % 4) + 1]

\* the header of a later frame: the right count, another count, no number
HeaderKinds == {0, 1, 2}
HeaderLine(h, n) ==
  IF h = 0 THEN <<IntToStr(n)>>
  ELSE IF h = 1 THEN <<IntToStr(n + 1)>>
  ELSE <<<<"x">>>>

CommentLine == <<<<"c">>>>

FrameBlock(n, h, b, s) ==
  <<HeaderLine(h, n), CommentLine>>
  \o [k1 \in 1..n |-> <<SymbolOf(s, k1 - 1)>> \o BodyPoint(b, k1 - 1)]

RECURSIVE Blocks(_, _, _, _, _)
\* the blocks f..1 of a file, block f last
Blocks(n, hs, bs, s, f) ==
  IF f = 0 THEN <<>>
  ELSE Blocks(n, hs, bs, s, f - 1) \o FrameBlock(n, hs[f], bs[f], s)

\* files of whole blocks whose first line is the atom count n
WholeFilesOf(n) ==
  UNION { { Blocks(n, hs, bs, s, nf) :
              hs \in {h \in [1..nf -> HeaderKinds] : h[1] = 0},
              bs \in [1..nf -> BodyKinds],
              s \in SymbolKinds } : nf \in 1..MaxFrames }

\* files that end in the middle of a frame, or carry one line too many
CutFilesOf(n) ==
  { Blocks(n, [f \in 1..nf |-> 0], [f \in 1..nf |-> 0], s, nf)
      \o Slice(FrameBlock(n, 0, 0, s), 0, len) :
      nf \in 0..MaxFrames, s \in SymbolKinds, len \in 1..(n + 1) }

FilesOf(n) == WholeFilesOf(n) \cup CutFilesOf(n)

\* files whose first line is not a positive integer
BadFirstLines == { <<<<"0">>>>, <<<<"-", "2">>>>, <<<<"3", ".", "5">>>>,
                   <<<<"a", "b", "c">>>>, <<<<"3">>, <<"4">>>>, <<>> }
BadHeaderFiles ==
  { <<l>> \o Slice(FrameBlock(1, 0, 0, 0), 1, len) :
      l \in BadFirstLines, len \in 1..3 }

Files == UNION {FilesOf(n) : n \in 1..MaxAtoms} \cup BadHeaderFiles \cup {<<>>}

\* lines 100-103: the extension assertion, then the whole file is read
OpenFile ==
  /\ pc = "Open"
  /\ IF ~filename_xyz THEN Fail(Error("WrongFormat", "filename", -1, -1, -1))
     ELSE /\ lines' \in Files
          /\ pc' = "ReadHeader"
          /\ UNCHANGED <<filename_xyz, pass, num_atoms, num_frames, atom_labels,
                         frames, i, frame_lines, frame, err, constructed,
                         self_frames, written, outfile, first, arg, res>>

Init ==
  /\ filename_xyz \in BOOLEAN
  /\ lines = <<>>
  /\ pc = "Open"
  /\ pass = 1
  /\ num_atoms = 0
  /\ num_frames = 0
  /\ atom_labels = <<>>
  /\ frames = <<>>
  /\ i = 0
  /\ frame_lines = <<>>
  /\ frame = <<>>
  /\ err = NoError
  /\ constructed = FALSE
  /\ self_frames = <<>>
  /\ written = FALSE
  /\ outfile = <<>>
  /\ first = NoObject
  /\ arg = <<>>
  /\ res = <<>>

Next ==
  \/ OpenFile
  \/ ReadHeader
  \/ ComputeFrameCount
  \/ DeriveLabels
  \/ ValidateHeader
  \/ ExtractBody
  \/ Recenter
  \/ Store
  \/ CheckExtracted
  \/ Return
  \/ WriteOut
  \/ Reparse

Spec == Init /\ [][Next]_vars

\* the run is one sequential program: it takes its next step while it has one
FairSpec == Spec /\ WF_vars(Next)

(* ------------------ the functions called on their own ----------------- *)
IdleParser ==
  /\ filename_xyz = TRUE
  /\ lines = <<>>
  /\ pass = 1
  /\ num_atoms = 0
  /\ num_frames = 0
  /\ atom_labels = <<>>
  /\ frames = <<>>
  /\ i = 0
  /\ frame_lines = <<>>
  /\ frame = <<>>
  /\ err = NoError
  /\ constructed = FALSE
  /\ self_frames = <<>>
  /\ written = FALSE
  /\ outfile = <<>>
  /\ first = NoObject

\* cast_positive_int ------------------------------------------------------
TokAlphabet == {"0", "1", "3", "5", "-", "+", ".", "a"}

RECURSIVE StringsUpTo(_)
\* the strings over TokAlphabet of length 0..n
StringsUpTo(n) ==
  IF n = 0 THEN {<<>>}
  ELSE LET shorter == StringsUpTo(n - 1)
       IN  shorter \cup {t \o <<c>> : t \in shorter, c \in TokAlphabet}

Tokens == StringsUpTo(MaxTokLen) \ {<<>>}

IntArgs ==
  {PyStr(<<t>>) : t \in Tokens}
  \cup {PyStr(<<>>), PyStr(<<<<"3">>, <<"1">>>>)}
  \cup {PyFloat(Rat[a, b]) : a \in (-MaxQuot)..MaxQuot, b \in 1..MaxQuot}

InitInt ==
  /\ IdleParser
  /\ pc = "Call"
  /\ arg \in IntArgs
  /\ res = Raise("pending")

CallCastPositiveInt ==
  /\ pc = "Call"
  /\ res' = cast_positive_int(arg)
  /\ pc' = "Returned"
  /\ UNCHANGED <<filename_xyz, lines, pass, num_atoms, num_frames, atom_labels,
                 frames, i, frame_lines, frame, err, constructed, self_frames,
                 written, outfile, first, arg>>

NextInt == CallCastPositiveInt

SpecInt == InitInt /\ [][NextInt]_vars

\* parse_atom_labels ------------------------------------------------------
LabelSymbols == {<<"C">>, <<"H">>, <<"O">>}

\* the atom lines of one frame: the element symbol and three coordinates
LabelArgs ==
  UNION { { [k \in 1..n |-> <<sym[k], <<"0">>, <<"0">>, <<"0">>>>] :
              sym \in [1..n -> LabelSymbols] } : n \in 1..(MaxAtoms + 1) }

InitLabels ==
  /\ IdleParser
  /\ pc = "Call"
  /\ arg \in LabelArgs
  /\ res = NoLabels

CallParseAtomLabels ==
  /\ pc = "Call"
  /\ res' = parse_atom_labels(arg, Len(arg))
  /\ pc' = "Returned"
  /\ UNCHANGED <<filename_xyz, lines, pass, num_atoms, num_frames, atom_labels,
                 frames, i, frame_lines, frame, err, constructed, self_frames,
                 written, outfile, first, arg>>

NextLabels == CallParseAtomLabels

SpecLabels == InitLabels /\ [][NextLabels]_vars

\* parse_one_frame --------------------------------------------------------
\* the token of coordinate value v on axis a: "v", "-v.5", ".v"
AxisToken(a, v) ==
  IF a = 1 THEN IntToStr(v)
  ELSE IF a = 2 THEN <<"-">> \o IntToStr(v) \o <<".", "5">>
  ELSE <<".">> \o IntToStr(v)

FrameSymbols == {<<"C">>, <<"7">>}

\* frames of n atoms: x and y of every atom range over 0..MaxCoord, z follows
\* the atom's position in the frame
WellFormedFrameArgs ==
  UNION { { [k \in 1..n |-> <<sym, AxisToken(1, c[k][1]), AxisToken(2, c[k][2]),
                              AxisToken(3, k % (MaxCoord + 1))>>] :
              sym \in FrameSymbols, c \in [1..n -> [1..2 -> 0..MaxCoord]] } :
          n \in 1..MaxAtoms }

MalformedFrameArgs ==
  { <<>>,
    << <<<<"C">>, <<"1">>, <<"x">>, <<"0">>>> >>,
    << <<<<"C">>, <<"1">>, <<"0">>>> >>,
    << <<<<"C">>, <<"1">>, <<"0">>, <<"0">>>>, <<<<"H">>, <<"1">>, <<"0">>>> >>,
    << <<<<"C">>, <<"1">>, <<"0">>, <<"0">>, <<"2">>, <<"2">>, <<"2">>>> >> }

FrameArgs == WellFormedFrameArgs \cup MalformedFrameArgs

InitFrame ==
  /\ IdleParser
  /\ pc = "Call"
  /\ arg \in FrameArgs
  /\ res = NoFrame

CallParseOneFrame ==
  /\ pc = "Call"
  /\ res' = parse_one_frame(arg)
  /\ pc' = "Returned"
  /\ UNCHANGED <<filename_xyz, lines, pass, num_atoms, num_frames, atom_labels,
                 frames, i, frame_lines, frame, err, constructed, self_frames,
                 written, outfile, first, arg>>

NextFrame == CallParseOneFrame

SpecFrame == InitFrame /\ [][NextFrame]_vars

(* ======================= properties of the program ==================== *)
\* the value of coordinate a (1..3) of an atom line
CoordOf(line, a) == StrToFloat(line[a + 1])

RECURSIVE AxisTotal(_, _)
\* the sum of coordinate a over the atom lines of a body
AxisTotal(body, a) ==
  IF body = <<>> THEN <<0, 1>>
  ELSE RAdd[CoordOf(Head(body), a), AxisTotal(Tail(body), a)]

\* vec[3k+a] = x(k,a) - (sum over j of x(j,a)) / n, by cross-multiplication
IsRecentredOf(vec, body) ==
  /\ Len(vec) = 3 * Len(body)
  /\ \A k \in 1..Len(body), a \in 1..3 :
       LET x == CoordOf(body[k], a)
           t == AxisTotal(body, a)
           o == vec[3 * (k - 1) + a]
           n == Len(body)
       IN  o[1] * x[2] * t[2] * n = o[2] * (x[1] * t[2] * n - t[1] * x[2])

RECURSIVE VecAxisTotal(_, _, _)
VecAxisTotal(vec, a, m) ==
  IF m = 0 THEN <<0, 1>>
  ELSE RAdd[vec[3 * (m - 1) + a], VecAxisTotal(vec, a, m - 1)]

CentredAtOrigin(vec) ==
  \A a \in 1..3 : VecAxisTotal(vec, a, Len(vec) \div 3)[1] = 0

\* an atom line: a symbol and three numbers
IsAtomLine(line) ==
  Len(line) = 4 /\ \A a \in 1..3 : IsFloatLiteral(line[a + 1])

\* the first line is one positive integer token
FirstLineCount(ls) ==
  IF Len(ls) > 0 /\ Len(ls[1]) = 1 /\ IsIntLiteral(ls[1][1]) /\ StrToInt(ls[1][1]) > 0
  THEN StrToInt(ls[1][1]) ELSE 0

\* the atom lines of block f (from 0) of a file of n-atom blocks
BlockBody(ls, f, n) == SubSeq(ls, f * (n + 2) + 3, (f + 1) * (n + 2))

\* block f has the header n and n atom lines
WellFormedBlock(ls, f, n) ==
  /\ (f + 1) * (n + 2) <= Len(ls)
  /\ ls[f * (n + 2) + 1] = <<IntToStr(n)>>
  /\ \A k \in 1..n : IsAtomLine(BlockBody(ls, f, n)[k])

\* a valid file: whole well-formed blocks only
ValidFile(ls) ==
  LET n == FirstLineCount(ls)
  IN  /\ n > 0
      /\ Len(ls) % (n + 2) = 0
      /\ \A f \in 0..((Len(ls) \div (n + 2)) - 1) : WellFormedBlock(ls, f, n)

Finished == pc \in {"Done", "Failed"}

ExpectedTag(ls, j) ==
  ls[j][1] \o IntToStr(Cardinality({m \in 1..(j - 1) : ls[m][1] = ls[j][1]}))

(* C1: parse_atom_labels gives the j-th atom the base tag E<m>, m the number
   of earlier atoms with the same element symbol E, uses it for that atom's
   _x, _y, _z labels, and no two atoms share an axis label. *)
C1_LabelUniqueness ==
  pc = "Returned" =>
    /\ res.ok
    /\ Len(res.labels) = 3 * Len(arg)
    /\ \A j \in 1..Len(arg) :
         /\ res.labels[3 * j - 2] = ExpectedTag(arg, j) \o <<"_", "x">>
         /\ res.labels[3 * j - 1] = ExpectedTag(arg, j) \o <<"_", "y">>
         /\ res.labels[3 * j] = ExpectedTag(arg, j) \o <<"_", "z">>
    /\ \A p \in 1..Len(res.labels), q \in 1..Len(res.labels) :
         p # q => res.labels[p] # res.labels[q]

WellFormedBody(body) ==
  Len(body) > 0 /\ \A k \in 1..Len(body) : IsAtomLine(body[k])

(* C2: parse_one_frame of a well-formed body returns, atom by atom and axis
   by axis, the input coordinate minus the mean of that axis over the
   frame's atoms, so the returned vector has its centroid at the origin. *)
C2_Recentering ==
  (pc = "Returned" /\ WellFormedBody(arg)) =>
    /\ res.ok
    /\ IsRecentredOf(res.frame, arg)
    /\ CentredAtOrigin(res.frame)

C2_Witness ==
  /\ pc = "Returned"
  /\ WellFormedBody(arg)
  /\ Len(arg) = 3
  /\ res.ok
  /\ \E k \in 1..Len(res.frame) : res.frame[k][2] = 3

MismatchedHeader(ls, f, n) ==
  LET h == ls[f * (n + 2) + 1]
  IN  Len(h) = 1 /\ IsIntLiteral(h[1]) /\ StrToInt(h[1]) > 0 /\ StrToInt(h[1]) # n

IsFirstMismatch(ls, k, n) ==
  /\ n > 0
  /\ Len(ls) % (n + 2) = 0
  /\ (k + 1) * (n + 2) <= Len(ls)
  /\ MismatchedHeader(ls, k, n)
  /\ \A f \in 0..(k - 1) : WellFormedBlock(ls, f, n)

(* C3: when the line count is a multiple of N+2 and frame k is the first
   frame whose header is a positive integer other than N, after well-formed
   frames 0..k-1, the parse fails with FrameAtomCountMismatch naming line
   k*(N+2), N and the value read, before row k is written; the header check
   of frame 0 never fails. *)
C3_FrameHeaderCheck ==
  /\ (pc = "Failed" /\ err.site = "frame_header") => i >= 1
  /\ (pc = "Failed" /\ err.kind = "FrameAtomCountMismatch") =>
       /\ err.line = i * (num_atoms + 2)
       /\ err.expected = num_atoms
       /\ err.got = StrToInt(lines[err.line + 1][1])
       /\ err.got # num_atoms
       /\ frames[i + 1] = <<>>
  /\ (Finished /\ filename_xyz) =>
       \A k \in 0..MaxFrames :
         IsFirstMismatch(lines, k, FirstLineCount(lines)) =>
           /\ pc = "Failed"
           /\ err.kind = "FrameAtomCountMismatch"
           /\ err.line = k * (FirstLineCount(lines) + 2)

C3_Witness ==
  /\ pc = "Failed"
  /\ err.kind = "FrameAtomCountMismatch"
  /\ i = 1
  /\ frames[1] # <<>>
  /\ IsFirstMismatch(lines, 1, num_atoms)

(* C4: when the parse of a valid file is done, there are 3*num_atoms
   labels, num_frames rows of length 3*num_atoms, num_frames*(num_atoms+2)
   lines in the file, and row f holds the recentred coordinates of the
   f-th block of the file. *)
C4_ShapeOfResult ==
  (pc = "Done" /\ ValidFile(lines)) =>
    /\ Len(atom_labels) = 3 * num_atoms
    /\ Len(self_frames) = num_frames
    /\ num_frames * (num_atoms + 2) = Len(lines)
    /\ \A f \in 1..num_frames :
         /\ Len(self_frames[f]) = 3 * num_atoms
         /\ IsRecentredOf(self_frames[f], BlockBody(lines, f - 1, num_atoms))

C4_Witness ==
  /\ pc = "Done"
  /\ ValidFile(lines)
  /\ num_frames >= 2
  /\ num_atoms = 3
  /\ self_frames[1] # self_frames[2]

PastFrameCount ==
  pc \in {"DeriveLabels", "ValidateHeader", "ExtractBody", "Recenter", "Store",
          "CheckExtracted", "Return", "Done"}

(* C5: when the first line is a positive integer N and the line count is
   not a multiple of N+2, the parse fails at the frame-count step with the
   validator's not-integral failure, before labels or frames exist; the
   parse is past that step only with a line count that is a positive
   multiple of N+2, and then num_frames is the quotient. *)
C5_FrameCountValidation ==
  LET n == FirstLineCount(lines)
  IN  /\ (Finished /\ filename_xyz /\ n > 0 /\ Len(lines) % (n + 2) # 0) =>
           /\ pc = "Failed"
           /\ err.kind = "NotIntegral"
           /\ err.site = "frame_count"
           /\ atom_labels = <<>>
           /\ frames = <<>>
      /\ (PastFrameCount \/ (pc = "Failed" /\ err.site \notin {"filename", "header", "frame_count"})) =>
           /\ n > 0
           /\ num_atoms = n
           /\ Len(lines) % (n + 2) = 0
           /\ num_frames >= 1
           /\ num_frames * (n + 2) = Len(lines)

C5_Witness ==
  /\ pc = "Failed"
  /\ err.kind = "NotIntegral"
  /\ err.site = "frame_count"
  /\ Len(lines) > num_atoms + 2
  /\ WellFormedBlock(lines, 0, num_atoms)

(* C6: cast_positive_int of a text token: a number with a fractional part
   fails with NotIntegral, a token that is no number with NotAnInteger, zero
   with ZeroValue, a negative integer with NegativeValue, and a positive
   integer is returned. *)
C6_ValidatorKinds ==
  (pc = "Returned" /\ arg.type = "str" /\ Len(arg.s) = 1) =>
    LET t == arg.s[1]
    IN  IF ~IsFloatLiteral(t) THEN res = Raise("NotAnInteger")
        ELSE IF StrToFloat(t)[2] # 1 THEN res = Raise("NotIntegral")
        ELSE IF ~IsIntLiteral(t) THEN TRUE
        ELSE IF StrToInt(t) = 0 THEN res = Raise("ZeroValue")
        ELSE IF StrToInt(t) < 0 THEN res = Raise("NegativeValue")
        ELSE res = Ok(StrToInt(t))

(* C7: parsing the file that writeOutXYYZ wrote for a parsed valid file
   succeeds and gives the same num_atoms, the same num_frames and the same
   coordinates as the first parse, which are the original coordinates minus
   each frame's centroid. *)
C7_RoundTrip ==
  (pass = 2 /\ ValidFile(first.lines)) =>
    /\ pc # "Failed"
    /\ pc = "Done" =>
         /\ num_atoms = first.num_atoms
         /\ num_frames = first.num_frames
         /\ self_frames = first.frames
         /\ \A f \in 1..num_frames :
              IsRecentredOf(self_frames[f], BlockBody(first.lines, f - 1, num_atoms))

C7_Witness ==
  /\ pass = 2
  /\ pc = "Done"
  /\ ValidFile(first.lines)
  /\ num_frames = 2
  /\ \E k \in 1..Len(self_frames[2]) : self_frames[2][k][2] = 3

InLoop == pc \in {"ValidateHeader", "ExtractBody", "Recenter", "Store", "CheckExtracted"}

(* C8: every run ends in Done or Failed and stays there; after a failure
   nothing more is validated, stored, handed to the caller or written; the
   table becomes self.frames only with every row stored, rows being stored
   in increasing index order. *)
C8_FailureIsTerminal ==
  /\ <>[](pc \in {"Done", "Failed"})
  /\ [][pc = "Failed" =>
          /\ pc' = "Failed"
          /\ UNCHANGED <<i, frames, frame, self_frames, constructed, written, outfile>>]_vars
  /\ [](pc = "Failed" =>
          /\ ~constructed
          /\ self_frames = <<>>
          /\ pass = 1
          /\ ~written
          /\ outfile = <<>>)
  /\ [](constructed =>
          /\ pc = "Done"
          /\ i = num_frames
          /\ self_frames = frames
          /\ \A r \in 1..num_frames : frames[r] # <<>>)
  /\ []((InLoop \/ pc = "Failed") =>
          \A r \in 1..Len(frames) :
            /\ r <= i => frames[r] # <<>>
            /\ r > i + 1 => frames[r] = <<>>)

C8_Witness ==
  /\ pc = "Failed"
  /\ i >= 1
  /\ frames[1] # <<>>
  /\ ~constructed

EndsMidFrame(ls) ==
  LET n == FirstLineCount(ls)
  IN  /\ n > 0
      /\ Len(ls) % (n + 2) # 0
      /\ ls[Len(ls) - (Len(ls) % (n + 2)) + 1] = <<IntToStr(n)>>

(* C9 as stated: a file that ends in the middle of a frame fails with
   TruncatedFrame, raised by the check of the number of extracted lines, and
   that check comes before the frame is stored. *)
C9_TruncatedFrame ==
  /\ (Finished /\ filename_xyz /\ EndsMidFrame(lines)) =>
       (pc = "Failed" /\ err.kind = "TruncatedFrame")
  /\ pc = "CheckExtracted" => frames[i + 1] = <<>>

(* C9 as amended: a file that ends in the middle of a frame fails at the
   frame-count step with the validator's not-integral failure, before any
   frame is processed; the check of the number of extracted lines comes
   after the frame is stored in row i and never fails. *)
C9_TruncationFailsAtFrameCount ==
  /\ (Finished /\ filename_xyz /\ EndsMidFrame(lines)) =>
       /\ pc = "Failed"
       /\ err.kind = "NotIntegral"
       /\ err.site = "frame_count"
       /\ frames = <<>>
  /\ pc = "CheckExtracted" =>
       /\ frames[i + 1] = frame
       /\ Len(frame_lines) = num_atoms
  /\ err.kind # "TruncatedFrame"

C9_Witness ==
  /\ pc = "Failed"
  /\ EndsMidFrame(lines)
  /\ Len(lines) % (num_atoms + 2) >= 3
  /\ Len(lines) > num_atoms + 2

(* C10: writeOutXYYZ writes, for every frame, the atom count, the marker
   line and one line per atom; the line of atom k carries a label of atom k
   and the three coordinates of atom k. *)
C10_WriterLayout ==
  (written /\ pass = 1) =>
    /\ Len(outfile) = num_frames * (num_atoms + 2)
    /\ \A f \in 0..(num_frames - 1) :
         LET base == f * (num_atoms + 2)
         IN  /\ outfile[base + 1] = <<IntToStr(num_atoms)>>
             /\ outfile[base + 2] = MarkerLine
             /\ \A k \in 0..(num_atoms - 1) :
                  LET l == outfile[base + 3 + k]
                  IN  /\ Len(l) = 4
                      /\ l[1] \in {atom_labels[3 * k + 1], atom_labels[3 * k + 2],
                                   atom_labels[3 * k + 3]}
                      /\ l[2] = FloatToStr(self_frames[f + 1][3 * k + 1])
                      /\ l[3] = FloatToStr(self_frames[f + 1][3 * k + 2])
                      /\ l[4] = FloatToStr(self_frames[f + 1][3 * k + 3])

====
